---- MODULE Spec2Model ----
(***************************************************************************)
(* A model of app.py, the issue intake API of the Smart City application:  *)
(* the three AI helper functions (get_category_from_image,                 *)
(* get_text_from_audio, get_category_from_text) and the three handlers     *)
(* that use the 'issues' table (create_issue, get_issues, update_issue).   *)
(*                                                                         *)
(* Python strings are sequences of one-character strings, so that lower(), *)
(* the `in` substring test and f-string composition are computed as the    *)
(* code computes them.                                                     *)
(***************************************************************************)
EXTENDS Integers, Sequences, FiniteSets, TLC

VARIABLES
    issues,     \* the rows of the 'issues' table, in insertion order
    nextId,     \* the table's id / created_at sequence (assigned by storage)
    tempFiles,  \* number of temporary media files present on disk
    req,        \* the request being answered, with what its environment did
    resp,       \* the handler's answer and the storage calls it issued
    created,    \* history: per 201 of create_issue, the id and the category computed
    updated,    \* history: ids of the records update_issue has changed
    text,       \* the argument handed to the Text Categorizer
    label       \* the label the Text Categorizer returned for it

vars == <<issues, nextId, tempFiles, req, resp, created, updated, text, label>>

(***************************************************************************)
(* Bounds of the model.                                                    *)
(***************************************************************************)
MaxIssues == 2
MaxFrags == 2

NULL == "null"

(***************************************************************************)
(* Strings.                                                                *)
(***************************************************************************)
UpperCase == <<"A", "B", "C", "D", "E", "F", "G", "H", "I", "J", "K", "L", "M",
               "N", "O", "P", "Q", "R", "S", "T", "U", "V", "W", "X", "Y", "Z">>
LowerCase == <<"a", "b", "c", "d", "e", "f", "g", "h", "i", "j", "k", "l", "m",
               "n", "o", "p", "q", "r", "s", "t", "u", "v", "w", "x", "y", "z">>

LowerOf == [c \in {UpperCase[i] : i \in 1..Len(UpperCase)} |->
               LowerCase[CHOOSE i \in 1..Len(UpperCase) : UpperCase[i] = c]]

\* str.lower() on one character
LowerChar(c) == IF c \in DOMAIN LowerOf THEN LowerOf[c] ELSE c

\* str.lower()
lower(s) == [i \in 1..Len(s) |-> LowerChar(s[i])]

\* Python's `sub in s` on strings
In(sub, s) ==
    \E i \in 1..(Len(s) - Len(sub) + 1) : SubSeq(s, i, i + Len(sub) - 1) = sub

kw_pothole == <<"p", "o", "t", "h", "o", "l", "e">>
kw_road_broken == <<"r", "o", "a", "d", " ", "b", "r", "o", "k", "e", "n">>
kw_streetlight == <<"s", "t", "r", "e", "e", "t", "l", "i", "g", "h", "t">>
kw_light == <<"l", "i", "g", "h", "t">>
kw_lamp == <<"l", "a", "m", "p">>
kw_trash == <<"t", "r", "a", "s", "h">>
kw_garbage == <<"g", "a", "r", "b", "a", "g", "e">>
kw_person == <<"p", "e", "r", "s", "o", "n">>

\* The category strings the code returns
Pothole == <<"P", "o", "t", "h", "o", "l", "e">>
StreetlightIssue == <<"S", "t", "r", "e", "e", "t", "l", "i", "g", "h", "t",
                      " ", "I", "s", "s", "u", "e">>
WasteManagement == <<"W", "a", "s", "t", "e", " ", "M", "a", "n", "a", "g", "e",
                     "m", "e", "n", "t">>
GeneralInquiry == <<"G", "e", "n", "e", "r", "a", "l", " ", "I", "n", "q", "u",
                    "i", "r", "y">>
Uncategorized == <<"U", "n", "c", "a", "t", "e", "g", "o", "r", "i", "z", "e", "d">>
UncategorizedImage == <<"U", "n", "c", "a", "t", "e", "g", "o", "r", "i", "z", "e",
                        "d", " ", "I", "m", "a", "g", "e">>
SocialIssue == <<"S", "o", "c", "i", "a", "l", " ", "I", "s", "s", "u", "e">>

\* Mutant of get_category_from_text: the match is made on the text as given
get_category_from_text_nolower(text_description) ==
    LET text_lower == text_description IN
    IF In(kw_pothole, text_lower) \/ In(kw_road_broken, text_lower)
    THEN Pothole
    ELSE IF In(kw_streetlight, text_lower) \/ In(kw_light, text_lower)
            \/ In(kw_lamp, text_lower)
    THEN StreetlightIssue
    ELSE IF In(kw_trash, text_lower) \/ In(kw_garbage, text_lower)
    THEN WasteManagement
    ELSE GeneralInquiry

\* get_category_from_text(text_description)
get_category_from_text(text_description) ==
    LET text_lower == lower(text_description) IN
    IF In(kw_pothole, text_lower) \/ In(kw_road_broken, text_lower)
    THEN Pothole
    ELSE IF In(kw_streetlight, text_lower) \/ In(kw_light, text_lower)
            \/ In(kw_lamp, text_lower)
    THEN StreetlightIssue
    ELSE IF In(kw_trash, text_lower) \/ In(kw_garbage, text_lower)
    THEN WasteManagement
    ELSE GeneralInquiry

(***************************************************************************)
(* Inputs of the Text Categorizer: every concatenation of at most MaxFrags *)
(* of these fragments.  Keywords appear in mixed case, at either end, and  *)
(* split over two fragments.                                               *)
(***************************************************************************)
Fragments ==
    { <<"P", "o", "t", "h", "o", "l", "e">>,
      <<"p", "o", "t">>,
      <<"h", "o", "l", "e">>,
      <<"R", "O", "A", "D">>,
      <<" ", "B", "r", "o", "k", "e", "n">>,
      <<"S", "t", "r", "e", "e", "t", "L", "i", "g", "h", "t">>,
      <<"L", "I", "G", "H", "T">>,
      <<"L", "a", "m", "p">>,
      <<"t", "r", "a", "s", "h">>,
      <<"G", "A", "R", "B", "A", "G", "E">>,
      <<" ", "i", "s", " ">>,
      <<"x">> }

RECURSIVE Flatten(_)
Flatten(ss) == IF ss = <<>> THEN <<>> ELSE Head(ss) \o Flatten(Tail(ss))

TextInputs ==
    { Flatten(ss) : ss \in UNION { [1..n -> Fragments] : n \in 0..MaxFrags } }

(***************************************************************************)
(* JSON values: a string or null (description_text, and a null request     *)
(* body); the other fields of a body are opaque tokens, NULL when null or  *)
(* absent.                                                                 *)
(***************************************************************************)
JStr(s) == [t |-> "str", v |-> s]
JNull == [t |-> "null"]

\* Python truthiness of a description_text value
Truthy(v) == v.t = "str" /\ v.v # <<>>

\* The value as an f-string formats it
Format(v) == IF v.t = "null" THEN <<"N", "o", "n", "e">> ELSE v.v

\* dict.get(key, default) on a JSON object
Get(data, key, default) == IF key \in DOMAIN data THEN data[key] ELSE default

(***************************************************************************)
(* The detector: its label table, and what predict() may report.           *)
(***************************************************************************)
Names == [c \in 0..2 |-> CASE c = 0 -> <<"p", "e", "r", "s", "o", "n">>
                           [] c = 1 -> <<"B", "i", "g", " ", "P", "o", "t", "h", "o", "l", "e">>
                           [] c = 2 -> <<"c", "a", "r">>]

\* A detected box: its confidence (in tenths) and its class index
Box(conf, cls) == [conf |-> conf, cls |-> cls]
BoxLists ==
    { <<>>,
      <<Box(9, 0)>>,
      <<Box(4, 1)>>,
      <<Box(7, 2)>>,
      <<Box(3, 0), Box(8, 1)>>,
      <<Box(6, 2), Box(6, 0)>>,
      <<Box(5, 1), Box(2, 2), Box(5, 0)>> }
\* results: an empty list, or one result with its (possibly empty) boxes
Results == {<<>>} \cup { <<bs>> : bs \in BoxLists }

Max(S) == CHOOSE x \in S : \A y \in S : y <= x

\* list.index(x): the first position holding x
IndexOf(xs, x) ==
    CHOOSE i \in 1..Len(xs) : xs[i] = x /\ \A j \in 1..(i - 1) : xs[j] # x

(***************************************************************************)
(* What the world does to one helper call.  fault names the first step of  *)
(* the helper that raises ("none": no step does); results and transcript   *)
(* are what the models produce when they are reached.                      *)
(***************************************************************************)
Happy(results, transcript) ==
    [fault |-> "none", results |-> results, transcript |-> transcript]
Faulty(f) == [fault |-> f, results |-> <<>>, transcript |-> <<>>]

\* requests.get(media_url, timeout) followed by raise_for_status() raises
FetchFails(media_url, env) == env.fault = "fetch" \/ media_url = NULL

\* Mutant of get_category_from_image: the two fallback labels are exchanged
get_category_from_image_swapped(media_url, env) ==
    IF env.fault = "load" \/ FetchFails(media_url, env)
    THEN [category |-> UncategorizedImage, leaked |-> 0]
    ELSE IF env.fault \in {"write", "infer"}
    THEN [category |-> UncategorizedImage, leaked |-> 1]
    ELSE [category |-> Uncategorized,
          leaked |-> IF env.fault = "remove" THEN 1 ELSE 0]

\* Mutant of get_category_from_image: no except clause, a failure yields no label
get_category_from_image_unwrapped(media_url, env) ==
    IF env.fault = "load" \/ FetchFails(media_url, env)
    THEN [category |-> <<>>, leaked |-> 0]
    ELSE IF env.fault \in {"write", "infer"}
    THEN [category |-> <<>>, leaked |-> 1]
    ELSE [category |-> UncategorizedImage,
          leaked |-> IF env.fault = "remove" THEN 1 ELSE 0]

\* get_category_from_image(media_url): the category, and the temporary files
\* the call leaves on disk
get_category_from_image(media_url, env) ==
    IF env.fault = "load" \/ FetchFails(media_url, env)
    THEN \* YOLO(...) or the download raised: nothing was written
         [category |-> Uncategorized, leaked |-> 0]
    ELSE IF env.fault \in {"write", "infer"}
    THEN \* raised after NamedTemporaryFile(delete=False) made the file
         [category |-> Uncategorized, leaked |-> 1]
    ELSE LET leaked == IF env.fault = "remove" THEN 1 ELSE 0  \* os.remove raised: pass
             results == env.results
         IN  IF results = <<>>
             THEN [category |-> UncategorizedImage, leaked |-> leaked]
             ELSE LET boxes == results[1] IN
                  IF boxes = <<>>
                  THEN [category |-> UncategorizedImage, leaked |-> leaked]
                  ELSE \* boxes carry conf and cls, and cls is an index of the
                       \* label table: the fallbacks for a missing conf, cls
                       \* or name are not taken
                       LET confs == [i \in 1..Len(boxes) |-> boxes[i].conf]
                           clss == [i \in 1..Len(boxes) |-> boxes[i].cls]
                           top_idx == IndexOf(confs, Max({confs[i] : i \in 1..Len(confs)}))
                           class_idx == clss[top_idx]
                           top_category == Names[class_idx]
                           top_lower == lower(top_category)
                       IN  IF In(kw_pothole, top_lower)
                           THEN [category |-> Pothole, leaked |-> leaked]
                           ELSE IF In(kw_person, top_lower)
                           THEN [category |-> SocialIssue, leaked |-> leaked]
                           ELSE [category |-> top_category, leaked |-> leaked]

\* get_text_from_audio(media_url): the transcript, and the temporary files
\* the call leaves on disk
get_text_from_audio(media_url, env) ==
    IF env.fault = "load" \/ FetchFails(media_url, env)
    THEN [text |-> <<>>, leaked |-> 0]
    ELSE IF env.fault \in {"write", "infer", "remove"}
    THEN \* write, transcribe() or os.remove raised: the file stays
         [text |-> <<>>, leaked |-> 1]
    ELSE [text |-> env.transcript, leaked |-> 0]

UserTextPrefix == <<"U", "s", "e", "r", " ", "T", "e", "x", "t", ":", " ">>
TranscriptionPrefix ==
    <<"\n", "\n", "A", "u", "d", "i", "o", " ", "T", "r", "a", "n", "s", "c", "r",
      "i", "p", "t", "i", "o", "n", ":", " ">>

\* Mutant of ComposeDescription: the transcript replaces the user's text
ComposeDescription_transcript_only(description_text, ai_transcription) ==
    JStr(ai_transcription)

\* f"User Text: {description_text}\n\nAudio Transcription: {ai_transcription}"
ComposeDescription(description_text, ai_transcription) ==
    JStr(UserTextPrefix \o Format(description_text)
         \o TranscriptionPrefix \o ai_transcription)

\* The AI PROCESSING block of create_issue: the category, the description to
\* store and the temporary files left behind
ai_processing(description_text, media_url, media_type, env) ==
    IF media_type = "image"
    THEN LET r == get_category_from_image(media_url, env) IN
         [ai_category |-> r.category, description_text |-> description_text,
          leaked |-> r.leaked]
    ELSE IF media_type = "audio" \/ media_type = "video"
    THEN LET r == get_text_from_audio(media_url, env)
             ai_transcription == r.text
         IN  [ai_category |-> get_category_from_text(ai_transcription),
              description_text |-> ComposeDescription(description_text, ai_transcription),
              leaked |-> r.leaked]
    ELSE IF Truthy(description_text)
    THEN [ai_category |-> get_category_from_text(description_text.v),
          description_text |-> description_text, leaked |-> 0]
    ELSE [ai_category |-> Uncategorized, description_text |-> description_text,
          leaked |-> 0]

(***************************************************************************)
(* Request bodies.  A JSON object is a function from the keys it has to    *)
(* their values; request.get_json() gives it, or None for a null body.     *)
(***************************************************************************)
JObject(fields) == [t |-> "object", v |-> fields]
EmptyObject == [k \in {} |-> NULL]

(***************************************************************************)
(* The storage collaborator, as the handlers call it.                      *)
(***************************************************************************)
\* supabase.table('issues').insert(insert_data): the row with the fields the
\* table assigns (id, created_at, and assigned_to, which the code never sends)
InsertedRow(insert_data) ==
    insert_data @@ [id |-> nextId, created_at |-> nextId, assigned_to |-> NULL]

\* Mutant of OrderDesc: the rows in ascending created_at
OrderDesc_ascending(rows) == rows

RECURSIVE OrderDesc(_)
\* .select('*').order('created_at', desc=True)
OrderDesc(rows) ==
    IF rows = <<>> THEN <<>>
    ELSE LET top == CHOOSE i \in 1..Len(rows) :
                        \A j \in 1..Len(rows) : rows[j].created_at <= rows[i].created_at
             rest == [k \in 1..(Len(rows) - 1) |-> IF k < top THEN rows[k] ELSE rows[k + 1]]
         IN  <<rows[top]>> \o OrderDesc(rest)

\* .update(update_data).eq('id', issue_id) on one matching row
ApplyUpdate(row, update_data) ==
    [f \in DOMAIN row |-> IF f \in DOMAIN update_data THEN update_data[f] ELSE row[f]]

\* Mutant of UpdateData: the request body is sent to storage as it is
UpdateData_whole_body(data) == data

\* update_data, built from the keys 'status' and 'assigned_to' of the body
UpdateData(data) ==
    [k \in DOMAIN data \cap {"status", "assigned_to"} |-> data[k]]

\* Mutant of NoValidFields: the check is missing
NoValidFields_never(update_data) == FALSE

\* `not update_data`
NoValidFields(update_data) == DOMAIN update_data = {}

(***************************************************************************)
(* POST /api/issue                                                         *)
(***************************************************************************)
\* insert_data
InsertData(data, description_text, media_url, media_type, ai_category) ==
    [description_text |-> description_text,
     lat |-> Get(data, "lat", NULL),
     lng |-> Get(data, "lng", NULL),
     media_url |-> media_url,
     media_type |-> media_type,
     status |-> "Pending",
     category |-> ai_category]

\* body: what request.get_json() gives; env: what the world does to the helper
\* call; st: what the insert does ("ok", "empty": no data returned, "raise")
create_issue(body, env, st) ==
    /\ req' = [op |-> "create_issue", body |-> body, env |-> env, st |-> st]
    /\ IF body.t # "object"
       THEN \* data.get raises: the except clause answers
            /\ resp' = [op |-> "create_issue", code |-> 500, storage |-> <<>>]
            /\ UNCHANGED <<issues, nextId, tempFiles, created>>
       ELSE LET data == body.v
                media_url == Get(data, "media_url", NULL)
                media_type == Get(data, "media_type", NULL)
                ai == ai_processing(Get(data, "description_text", JStr(<<>>)),
                                    media_url, media_type, env)
                insert_data == InsertData(data, ai.description_text, media_url,
                                          media_type, ai.ai_category)
                call == [call |-> "insert", arg |-> insert_data]
                new_issue == InsertedRow(insert_data)
            IN  /\ tempFiles' = tempFiles + ai.leaked
                /\ IF st = "ok"
                   THEN /\ Len(issues) < MaxIssues
                        /\ issues' = Append(issues, new_issue)
                        /\ nextId' = nextId + 1
                        /\ created' = Append(created, [id |-> new_issue.id,
                                                    category |-> ai.ai_category])
                        /\ resp' = [op |-> "create_issue", code |-> 201,
                                    storage |-> <<call>>, body |-> new_issue]
                   ELSE \* no data in the response, or execute() raised
                        /\ resp' = [op |-> "create_issue", code |-> 500,
                                    storage |-> <<call>>]
                        /\ UNCHANGED <<issues, nextId, created>>
    /\ UNCHANGED <<updated, text, label>>

(***************************************************************************)
(* GET /api/issues                                                         *)
(***************************************************************************)
\* role: the role of the subject that sends the request; st: what the select
\* does ("ok", "raise")
get_issues(role, st) ==
    /\ req' = [op |-> "get_issues", role |-> role, st |-> st]
    /\ resp' = IF st = "ok"
               THEN [op |-> "get_issues", code |-> 200,
                     storage |-> <<[call |-> "select"]>>, body |-> OrderDesc(issues)]
               ELSE [op |-> "get_issues", code |-> 500,
                     storage |-> <<[call |-> "select"]>>]
    /\ UNCHANGED <<issues, nextId, tempFiles, created, updated, text, label>>

(***************************************************************************)
(* PUT /api/issue/<issue_id>                                               *)
(***************************************************************************)
\* st: what the update does ("ok", "raise")
update_issue(issue_id, body, st) ==
    /\ req' = [op |-> "update_issue", issue_id |-> issue_id, body |-> body, st |-> st]
    /\ IF body.t # "object"
       THEN \* 'status' in None raises: the except clause answers
            /\ resp' = [op |-> "update_issue", code |-> 500, storage |-> <<>>]
            /\ UNCHANGED <<issues, updated>>
       ELSE LET data == body.v
                update_data == UpdateData(data)
                call == [call |-> "update", arg |-> update_data, id |-> issue_id]
                hit == {i \in 1..Len(issues) : issues[i].id = issue_id}
            IN  IF NoValidFields(update_data)
                THEN /\ resp' = [op |-> "update_issue", code |-> 400, storage |-> <<>>]
                     /\ UNCHANGED <<issues, updated>>
                ELSE IF st = "ok" /\ hit # {}
                THEN /\ issues' = [i \in 1..Len(issues) |->
                                      IF i \in hit
                                      THEN ApplyUpdate(issues[i], update_data)
                                      ELSE issues[i]]
                     /\ updated' = updated \cup {issue_id}
                     /\ resp' = [op |-> "update_issue", code |-> 200,
                                 storage |-> <<call>>,
                                 body |-> issues'[CHOOSE i \in hit : TRUE]]
                ELSE \* execute() raised, or response.data[0] on no row
                     /\ resp' = [op |-> "update_issue", code |-> 500,
                                 storage |-> <<call>>]
                     /\ UNCHANGED <<issues, updated>>
    /\ UNCHANGED <<nextId, tempFiles, created, text, label>>

NoLabel == <<>>
NoRequest == [op |-> "none"]
NoResponse == [op |-> "none", code |-> 0, storage |-> <<>>]

\* The state of the service once the module is loaded: an empty table
ServiceInit ==
    /\ issues = <<>>
    /\ nextId = 1
    /\ tempFiles = 0
    /\ req = NoRequest
    /\ resp = NoResponse
    /\ created = <<>>
    /\ updated = {}

(***************************************************************************)
(* The Text Categorizer alone.                                             *)
(***************************************************************************)
InitText ==
    /\ ServiceInit
    /\ text \in TextInputs
    /\ label = NoLabel

Categorize ==
    /\ label = NoLabel
    /\ label' = get_category_from_text(text)
    /\ UNCHANGED <<issues, nextId, tempFiles, req, resp, created, updated, text>>

NextText == Categorize

SpecText == InitText /\ [][NextText]_vars

(***************************************************************************)
(* The requests of the full API (Spec): few bodies, so that the table can  *)
(* hold several rows.                                                      *)
(***************************************************************************)
MediaUrl == "http://media/1"
BigPothole == <<"B", "i", "g", " ", "P", "o", "t", "h", "o", "l", "e">>
LampIsOut == <<"l", "a", "m", "p", " ", "i", "s", " ", "o", "u", "t">>
GarbagePile == <<"G", "a", "r", "b", "a", "g", "e", " ", "p", "i", "l", "e">>

ApiCreateBodies ==
    { JNull,
      JObject(("description_text" :> JStr(BigPothole)) @@ ("status" :> "Resolved")
              @@ ("lat" :> "12.9") @@ ("lng" :> "77.5")),
      JObject(("media_url" :> MediaUrl) @@ ("media_type" :> "image")),
      JObject(("description_text" :> JStr(BigPothole)) @@ ("media_url" :> MediaUrl)
              @@ ("media_type" :> "audio")) }

\* What the world may do to the helper call a body leads to
EnvsFor(body, imageEnvs, audioEnvs) ==
    LET media_type == IF body.t = "object" THEN Get(body.v, "media_type", NULL) ELSE NULL
    IN  IF media_type = "image" THEN imageEnvs
        ELSE IF media_type \in {"audio", "video"} THEN audioEnvs
        ELSE {Happy(<<>>, <<>>)}

ApiImageEnvs == {Happy(<< <<Box(9, 0)>> >>, <<>>)}
ApiAudioEnvs == {Happy(<<>>, GarbagePile)}

InsertOutcomes == {"ok", "empty", "raise"}
ApiInsertOutcomes == {"ok", "empty"}
StorageOutcomes == {"ok", "raise"}
Roles == {"admin", "operator", "citizen"}

UpdateBodies ==
    { JNull,
      JObject(EmptyObject),
      JObject("assigned_to" :> "op1"),
      JObject(("status" :> "Resolved") @@ ("category" :> <<"x">>)) }

Init ==
    /\ ServiceInit
    /\ text = <<>>
    /\ label = NoLabel

\* The outcomes of a storage call that matter: one, when the call is not reached
OutcomesFor(reached, outcomes) == IF reached THEN outcomes ELSE {"ok"}

Next ==
    \/ \E body \in ApiCreateBodies :
          \E env \in EnvsFor(body, ApiImageEnvs, ApiAudioEnvs),
             st \in OutcomesFor(body.t = "object", ApiInsertOutcomes) :
                create_issue(body, env, st)
    \/ \E role \in Roles, st \in StorageOutcomes : get_issues(role, st)
    \/ \E issue_id \in 1..nextId, body \in UpdateBodies :
          \E st \in OutcomesFor(body.t = "object" /\ ~NoValidFields(UpdateData(body.v)),
                                 StorageOutcomes) :
             update_issue(issue_id, body, st)

Spec == Init /\ [][Next]_vars

(***************************************************************************)
(* The intake alone (SpecIntake): create_issue on every combination of     *)
(* description, media reference and media kind, with every failure and     *)
(* every detection of the helpers.                                         *)
(***************************************************************************)
DescriptionFields ==
    { EmptyObject,
      "description_text" :> JNull,
      "description_text" :> JStr(<<>>),
      "description_text" :> JStr(BigPothole),
      "description_text" :> JStr(LampIsOut) }
MediaUrlFields == { EmptyObject, "media_url" :> MediaUrl }
MediaTypeFields ==
    { EmptyObject, "media_type" :> "image", "media_type" :> "audio",
      "media_type" :> "video", "media_type" :> "text" }

IntakeBodies ==
    {JNull} \cup
    { JObject(d @@ u @@ m) :
        d \in DescriptionFields, u \in MediaUrlFields, m \in MediaTypeFields }

Faults == {"load", "fetch", "write", "infer", "remove"}
Transcripts == { <<>>, GarbagePile, LampIsOut }

IntakeImageEnvs ==
    { Faulty(f) : f \in Faults \ {"remove"} }
    \cup { [fault |-> f, results |-> r, transcript |-> <<>>] :
             f \in {"none", "remove"}, r \in Results }
IntakeAudioEnvs ==
    { Faulty(f) : f \in Faults } \cup { Happy(<<>>, t) : t \in Transcripts }

\* The first request a fresh service receives
NextIntake ==
    /\ req = NoRequest
    /\ \E body \in IntakeBodies :
         \E env \in EnvsFor(body, IntakeImageEnvs, IntakeAudioEnvs),
            st \in OutcomesFor(body.t = "object", InsertOutcomes) :
               create_issue(body, env, st)

SpecIntake == Init /\ [][NextIntake]_vars

(***************************************************************************)
(* C1.  The Text Categorizer returns exactly one of the four labels, the   *)
(* one of the first rule, in the order pothole / streetlight / waste /     *)
(* general, that has a keyword occurring somewhere in the text, letters    *)
(* compared without regard to case.                                        *)
(***************************************************************************)
\* kw (lower case) occurs in s at position i, case-insensitively
OccursAt(kw, s, i) ==
    /\ i + Len(kw) - 1 <= Len(s)
    /\ \A j \in 1..Len(kw) : LowerChar(s[i + j - 1]) = kw[j]

Occurs(kw, s) == \E i \in 1..Len(s) : OccursAt(kw, s, i)

Rule1(s) == Occurs(kw_pothole, s) \/ Occurs(kw_road_broken, s)
Rule2(s) == Occurs(kw_streetlight, s) \/ Occurs(kw_light, s) \/ Occurs(kw_lamp, s)
Rule3(s) == Occurs(kw_trash, s) \/ Occurs(kw_garbage, s)

C1_FirstMatchingRule ==
    label # NoLabel =>
        /\ label \in {Pothole, StreetlightIssue, WasteManagement, GeneralInquiry}
        /\ Rule1(text) => label = Pothole
        /\ (~Rule1(text) /\ Rule2(text)) => label = StreetlightIssue
        /\ (~Rule1(text) /\ ~Rule2(text) /\ Rule3(text)) => label = WasteManagement
        /\ (~Rule1(text) /\ ~Rule2(text) /\ ~Rule3(text)) => label = GeneralInquiry
        /\ text = <<>> => label = GeneralInquiry

\* a text with 'streetlight' before 'pothole', in mixed case, has been labelled
C1_Witness ==
    /\ label = Pothole
    /\ Occurs(kw_streetlight, text)
    /\ Occurs(kw_pothole, text)
    /\ ~In(kw_pothole, text)
    /\ \E i, j \in 1..Len(text) :
          i < j /\ OccursAt(kw_streetlight, text, i) /\ OccursAt(kw_pothole, text, j)

(***************************************************************************)
(* What a create_issue request asked for and what it handed to storage.    *)
(***************************************************************************)
IsCreate == req.op = "create_issue" /\ req.body.t = "object"
ReqMediaType == Get(req.body.v, "media_type", NULL)
ReqMediaUrl == Get(req.body.v, "media_url", NULL)
ReachedInsert == resp.storage # <<>> /\ resp.storage[1].call = "insert"
Inserted == resp.storage[1].arg

(***************************************************************************)
(* C2.  For an audio or video submission the stored category is the Text   *)
(* Categorizer's label of the composed description that is stored with it  *)
(* ("User Text: ...\n\nAudio Transcription: ..."), not of the transcript   *)
(* alone.                                                                  *)
(***************************************************************************)
C2_CategoryOfComposedDescription ==
    \A i \in 1..Len(issues) :
        issues[i].media_type \in {"audio", "video"} =>
            issues[i].category = get_category_from_text(issues[i].description_text.v)

(***************************************************************************)
(* C3.  For an audio or video submission that reaches the insert, the      *)
(* description handed to storage contains "User Text:" and "Audio          *)
(* Transcription:", whatever the user text and the transcript are.         *)
(***************************************************************************)
UserTextMarker == <<"U", "s", "e", "r", " ", "T", "e", "x", "t", ":">>
AudioTranscriptionMarker ==
    <<"A", "u", "d", "i", "o", " ", "T", "r", "a", "n", "s", "c", "r", "i", "p",
      "t", "i", "o", "n", ":">>

C3_MarkersInDescription ==
    (IsCreate /\ ReqMediaType \in {"audio", "video"} /\ ReachedInsert) =>
        /\ Inserted.description_text.t = "str"
        /\ In(UserTextMarker, Inserted.description_text.v)
        /\ In(AudioTranscriptionMarker, Inserted.description_text.v)

\* a video with no user text whose transcription raised has been stored
C3_Witness ==
    /\ IsCreate /\ ReqMediaType = "video" /\ resp.code = 201
    /\ "description_text" \notin DOMAIN req.body.v
    /\ req.env.fault = "infer"
    /\ issues # <<>>
    /\ issues[Len(issues)].description_text = JStr(UserTextMarker \o <<" ">> \o
                                     <<"\n", "\n">> \o AudioTranscriptionMarker \o <<" ">>)

(***************************************************************************)
(* C4.  For an image submission, a failure of the download or of the       *)
(* inference gives the category "Uncategorized"; a downloaded image for    *)
(* which the detector reports no result or no box gives "Uncategorized     *)
(* Image"; neither case gives the other's label.                           *)
(***************************************************************************)
ImageFailed ==
    \/ ReqMediaUrl = NULL
    \/ req.env.fault \in {"load", "fetch", "write", "infer"}
NoDetection == req.env.results = <<>> \/ req.env.results[1] = <<>>

C4_FetchFailureVsNoDetection ==
    (IsCreate /\ ReqMediaType = "image" /\ ReachedInsert) =>
        /\ ImageFailed => Inserted.category = Uncategorized
        /\ (~ImageFailed /\ NoDetection) => Inserted.category = UncategorizedImage
        /\ Uncategorized # UncategorizedImage

\* a downloaded image with a result of zero boxes has been categorized
C4_Witness ==
    /\ IsCreate /\ ReqMediaType = "image" /\ ReachedInsert
    /\ ~ImageFailed
    /\ req.env.results = << <<>> >>
    /\ Inserted.category = UncategorizedImage

C6_EmptyUpdateRejected ==
    [][ (/\ req'.op = "update_issue"
         /\ req'.body.t = "object"
         /\ DOMAIN req'.body.v \cap {"status", "assigned_to"} = {})
        => (resp'.code = 400 /\ resp'.storage = <<>> /\ issues' = issues) ]_vars

\* the body {} was sent for a stored record and answered 400
C6_Witness ==
    /\ req.op = "update_issue"
    /\ req.body = JObject(EmptyObject)
    /\ \E i \in 1..Len(issues) : issues[i].id = req.issue_id
    /\ resp.code = 400

C8_ListingRoundTrip ==
    (resp.op = "get_issues" /\ resp.code = 200) =>
        LET listed == resp.body IN
        /\ \A k \in 1..Len(created) :
              /\ Cardinality({i \in 1..Len(listed) : listed[i].id = created[k].id}) = 1
              /\ \A i \in 1..Len(listed) :
                    (listed[i].id = created[k].id /\ created[k].id \notin updated) =>
                        /\ listed[i].status = "Pending"
                        /\ listed[i].category = created[k].category
        /\ \A i, j \in 1..Len(listed) :
              i < j => listed[i].created_at > listed[j].created_at

\* two issues were created, one of them was updated, and both are listed
C8_Witness ==
    /\ resp.op = "get_issues" /\ resp.code = 200
    /\ Len(created) = 2 /\ Len(resp.body) = 2
    /\ Cardinality(updated) = 1
    /\ resp.body[1].category # resp.body[2].category

(***************************************************************************)
(* C9.  Every temporary media file a helper creates is deleted before the  *)
(* helper returns: when it returns normally or with no detection, and when *)
(* the inference or the transcription raises after the file was written.   *)
(***************************************************************************)
C9_NoTempFileLeft ==
    (IsCreate /\ req.env.fault \in {"none", "infer"}) => tempFiles = 0

(***************************************************************************)
(* C10.  No step removes a stored record; a record enters the table with   *)
(* status 'Pending', by create_issue; and a record changes only by an      *)
(* update_issue for its id, which leaves every field but 'status' and      *)
(* 'assigned_to' as it was.                                                *)
(***************************************************************************)
FrameFields ==
    {"id", "created_at", "description_text", "lat", "lng", "media_url",
     "media_type", "category"}

C10_StatusAndAssignmentOnly ==
    [][ /\ Len(issues') >= Len(issues)
        /\ \A i \in 1..Len(issues) :
              /\ DOMAIN issues'[i] = DOMAIN issues[i]
              /\ \A f \in FrameFields : issues'[i][f] = issues[i][f]
              /\ issues'[i] # issues[i] =>
                    (req'.op = "update_issue" /\ req'.issue_id = issues[i].id)
        /\ \A i \in (Len(issues) + 1)..Len(issues') :
              /\ req'.op = "create_issue"
              /\ issues'[i].status = "Pending" ]_vars

\* one of two stored records was updated by a body that also named 'category'
C10_Witness ==
    /\ req.op = "update_issue" /\ resp.code = 200
    /\ "category" \in DOMAIN req.body.v
    /\ Len(issues) = 2
    /\ \E i, j \in 1..2 :
          /\ issues[i].status = "Resolved" /\ issues[i].id = req.issue_id
          /\ issues[j].status = "Pending"

====
